---- MODULE Spec2Model ----
(***************************************************************************)
(* serverless-plugin-external-sns-events (src/src/index.js).               *)
(*                                                                         *)
(* The plugin's hooks walk the service's functions (_loopEvents) and start *)
(* one asynchronous action per externalSNS event.  _loopEvents does not    *)
(* wait for the promise an action returns, so the actions of one hook run  *)
(* interleaved: each step below is the arrival of one remote response and  *)
(* the promise continuation that runs on it.                               *)
(*                                                                         *)
(* JavaScript strings are TLA+ strings; the string operations the code     *)
(* uses (toLowerCase, indexOf, split, string concatenation, util.format)   *)
(* are computed character by character.                                    *)
(***************************************************************************)
EXTENDS Integers, Sequences, FiniteSets, TLC

-----------------------------------------------------------------------------
(* JavaScript values *)

\* The value of a missing property or argument.
Undefined == "<undefined>"

\* The value null.
Null == "<null>"

\* JavaScript truthiness of a string-or-missing value.
Truthy(v) == v \notin {Undefined, Null, ""}

\* a || b
OrElse(a, b) == IF Truthy(a) THEN a ELSE b

UpperCaseLetters == "ABCDEFGHIJKLMNOPQRSTUVWXYZ"

LowerCaseLetters == "abcdefghijklmnopqrstuvwxyz"

CharAt(s, i) == SubSeq(s, i, i)

\* String.prototype.toLowerCase, one character.
LowerChar(c) ==
    IF \E i \in 1..26 : CharAt(UpperCaseLetters, i) = c
    THEN CharAt(LowerCaseLetters, CHOOSE i \in 1..26 : CharAt(UpperCaseLetters, i) = c)
    ELSE c

RECURSIVE ToLowerCase(_)
ToLowerCase(s) ==
    IF s = "" THEN ""
    ELSE LowerChar(CharAt(s, 1)) \o ToLowerCase(SubSeq(s, 2, Len(s)))

\* String.prototype.indexOf: the 0-based position of the first occurrence, or -1.
IndexOf(s, t) ==
    LET hits == { i \in 1..(Len(s) - Len(t) + 1) : SubSeq(s, i, i + Len(t) - 1) = t }
    IN  IF hits = {} THEN -1
        ELSE (CHOOSE i \in hits : \A j \in hits : i <= j) - 1

\* String.prototype.split on a one-character separator.
RECURSIVE Split(_, _)
Split(s, sep) ==
    LET k == IndexOf(s, sep)
    IN  IF k = -1 THEN <<s>>
        ELSE <<SubSeq(s, 1, k)>> \o Split(SubSeq(s, k + 2, Len(s)), sep)

\* arr[i] with JavaScript's 0-based index; undefined past the end.
At(arr, i) == IF i + 1 \in DOMAIN arr THEN arr[i + 1] ELSE Undefined

-----------------------------------------------------------------------------
(* Program constants *)

DELIVERY_POLICY_ATTR == "DeliveryPolicy"

DEFAULT_REGION == "us-east-1"

\* util.format(INVOKE_URL_TEMPLATE, id, region, stage, path)
INVOKE_URL_TEMPLATE(id, region, stage, path) ==
    "https://" \o id \o ".execute-api." \o region \o ".amazonaws.com/" \o stage \o "/" \o path

-----------------------------------------------------------------------------
(* The service configuration and the options (this._serverless, this._opts) *)

\* A delivery policy as configured (the value of a binding's DeliveryPolicy key).
RetryPolicy == "{\"numRetries\":5}"

\* A topic binding is the value of an event's externalSNS key: a bare string,
\* [str |-> name], or an object with the keys topic, Protocol, DeliveryPolicy.
\* _.isObject(topicName)
IsObject(topicName) == "str" \notin DOMAIN topicName

\* Two functions bound to the same topic; the second asks for a delivery policy.
ServiceOrders ==
    << [ key |-> "notify", name |-> "svc-dev-notify",
         events |-> << [ externalSNS |-> [ str |-> "orders" ] ] >> ],
       [ key |-> "audit", name |-> "svc-dev-audit",
         events |-> << [ schedule |-> "rate(1 hour)" ],
                       [ externalSNS |-> [ topic |-> "orders", DeliveryPolicy |-> RetryPolicy ] ] >> ] >>

\* An HTTP-triggered function subscribed over https, with a delivery policy.
ServiceHook ==
    << [ key |-> "hook", name |-> "svc-dev-hook",
         events |-> << [ http |-> [ method |-> "post", path |-> "hook" ] ],
                       [ externalSNS |-> [ topic |-> "orders", Protocol |-> "https",
                                           DeliveryPolicy |-> RetryPolicy ] ] >> ] >>

\* One function bound twice to the same topic; its first http event has no path.
ServiceRelay ==
    << [ key |-> "relay", name |-> "svc-dev-relay",
         events |-> << [ http |-> [ method |-> "get" ] ],
                       [ externalSNS |-> [ str |-> "orders" ] ],
                       [ http |-> [ method |-> "post", path |-> "relay" ] ],
                       [ externalSNS |-> [ topic |-> "orders" ] ] >> ] >>

\* provider.naming.getApiGatewayName()
ApiGatewayName(stage) == stage \o "-svc"

\* The region the provider's requests go to.
ProviderRegion(o) == OrElse(o.region, DEFAULT_REGION)

AccountId == "111122223333"

-----------------------------------------------------------------------------
(* The remote services the provider's requests reach *)

\* Lambda getFunction: the descriptor's Configuration.FunctionArn.
FunctionArnOf(o, name) ==
    "arn:aws:lambda:" \o ProviderRegion(o) \o ":" \o AccountId \o ":function:" \o name

\* What listSubscriptionsByTopic shows as the identifier of an unconfirmed subscription.
PendingConfirmation == "PendingConfirmation"

\* What a subscribe response carries as identifier when confirmation is awaited.
PendingResponses == { "pending confirmation", "Pending Confirmation" }

Digits == "0123456789"

\* The identifier of the n-th confirmed subscription of a topic.
ConfirmedArn(topicArn, n) == topicArn \o ":" \o CharAt(Digits, n + 1)

\* The entry of a subscription in the topic's list.  id is the number SNS gave it
\* (its identifier ends with it once it is confirmed), by is the call (function,
\* event) whose subscribe request created it.
Subscription(arn, topicArn, protocol, endpoint, id, by) ==
    [ SubscriptionArn |-> arn, TopicArn |-> topicArn, Protocol |-> protocol,
      Endpoint |-> endpoint, DeliveryPolicy |-> Undefined, id |-> id, by |-> by ]

\* SNS listSubscriptionsByTopic: the topic's subscriptions, in list order.
ListSubscriptionsByTopic(subs, topicArn) ==
    SelectSeq(subs, LAMBDA sub : sub.TopicArn = topicArn)

\* SNS unsubscribe: the subscription with this identifier is removed.
Unsubscribe(subs, arn) ==
    SelectSeq(subs, LAMBDA sub : sub.SubscriptionArn # arn)

\* SNS setSubscriptionAttributes: the attribute is stored on the subscription.
SetAttribute(subs, arn, value) ==
    [ k \in DOMAIN subs |->
        IF subs[k].SubscriptionArn = arn THEN [ subs[k] EXCEPT !.DeliveryPolicy = value ]
        ELSE subs[k] ]

-----------------------------------------------------------------------------
(* The plugin's functions *)

\* String(v), as string concatenation applies it.
Str(v) == IF v = Undefined THEN "undefined" ELSE IF v = Null THEN "null" ELSE v

\* if (evt.externalSNS)
HasExternalSNS(evt) ==
    /\ "externalSNS" \in DOMAIN evt
    /\ (IsObject(evt.externalSNS) \/ Truthy(evt.externalSNS.str))

\* The inner loop walking the events from the last to the first.
RECURSIVE EachEventBackwards(_, _, _)
EachEventBackwards(fns, i, j) ==
    IF j > Len(fns[i].events) THEN << >>
    ELSE EachEventBackwards(fns, i, j + 1)
         \o (IF HasExternalSNS(fns[i].events[j])
             THEN << [ fn |-> i, ev |-> j, fnName |-> fns[i].key,
                       topicName |-> fns[i].events[j].externalSNS ] >>
             ELSE << >>)

\* The inner _.each of _loopEvents: the calls fn.call(self, fnName, fnDef,
\* evt.externalSNS) for the events of function i from event j on, in order.
RECURSIVE EachEvent(_, _, _)
EachEvent(fns, i, j) ==
    IF j > Len(fns[i].events) THEN << >>
    ELSE (IF HasExternalSNS(fns[i].events[j])
          THEN << [ fn |-> i, ev |-> j, fnName |-> fns[i].key,
                    topicName |-> fns[i].events[j].externalSNS ] >>
          ELSE << >>) \o EachEvent(fns, i, j + 1)

\* _loopEvents: the outer _.each over the service's functions, from function i on.
RECURSIVE LoopEvents(_, _)
LoopEvents(fns, i) ==
    IF i > Len(fns) THEN << >>
    ELSE EachEvent(fns, i, 1) \o LoopEvents(fns, i + 1)

\* topicName after "if (_.isObject(topicName)) topicName = topicName.topic".
TopicNameOf(topicName) ==
    IF IsObject(topicName)
    THEN (IF "topic" \in DOMAIN topicName THEN topicName.topic ELSE Undefined)
    ELSE topicName.str

\* protocol taken from every object binding, without the test of line 90.
ProtocolOfUnguarded(topicName) ==
    IF IsObject(topicName)
    THEN (IF "Protocol" \in DOMAIN topicName THEN topicName.Protocol ELSE Undefined)
    ELSE "lambda"

\* protocol in subscribeFunction: 'lambda' unless the binding has a Protocol.
ProtocolOf(topicName) ==
    IF IsObject(topicName) /\ "Protocol" \in DOMAIN topicName /\ Truthy(topicName.Protocol)
    THEN topicName.Protocol
    ELSE "lambda"

\* Whether subscribeFunction sets subscriptionAttrs.
HasSubscriptionAttrs(topicName) ==
    IsObject(topicName) /\ DELIVERY_POLICY_ATTR \in DOMAIN topicName

\* subscriptionAttrs.value
SubscriptionAttrsValue(topicName) ==
    IF HasSubscriptionAttrs(topicName) THEN topicName[DELIVERY_POLICY_ATTR] ELSE Undefined

\* _getRestApiId taking the first item whatever its name.
GetRestApiIdOfFirstItem(items, apiName) ==
    IF items = << >> THEN Null ELSE items[1].id

\* _getRestApiId: the id of the first item whose name is the gateway's, or null.
GetRestApiId(items, apiName) ==
    LET hits == { k \in DOMAIN items : items[k].name = apiName }
    IN  IF hits = {} THEN Null
        ELSE items[CHOOSE k \in hits : \A l \in hits : k <= l].id

\* _getFunctionEndpoint: the path of the first event with an http key, and the
\* invoke URL when both the gateway id and the path are there.
GetFunctionEndpoint(fnDef, id, o) ==
    LET hits    == { k \in DOMAIN fnDef.events : "http" \in DOMAIN fnDef.events[k] }
        httpEv  == fnDef.events[CHOOSE k \in hits : \A l \in hits : k <= l]
        apiPath == IF hits = {} THEN Null
                   ELSE IF "path" \in DOMAIN httpEv.http THEN httpEv.http.path
                   ELSE Undefined
    IN  IF Truthy(id) /\ Truthy(apiPath)
        THEN INVOKE_URL_TEMPLATE(id, OrElse(o.region, DEFAULT_REGION), o.stage, apiPath)
        ELSE Null

\* _getSubscriptionInfo, on the function's descriptor: the topic ARN.
TopicArnOf(fnArn, topicName) ==
    LET region == At(Split(fnArn, ":"), 3)
        acctID == At(Split(fnArn, ":"), 4)
    IN  "arn:aws:sns:" \o Str(region) \o ":" \o Str(acctID) \o ":" \o Str(topicName)

\* The predicate with its pending test on the identifier as it is spelled.
IsExistingCaseSensitive(sub, protocol, httpEndpoint, fnArn) ==
    IF IndexOf(sub.SubscriptionArn, "pending") # -1 THEN FALSE
    ELSE \/ sub.Protocol = protocol
         \/ (Truthy("lambda") /\ (sub.Endpoint = httpEndpoint \/ sub.Endpoint = fnArn))

\* The predicate with its pending test inverted (=== -1 for !== -1).
IsExistingPendingInverted(sub, protocol, httpEndpoint, fnArn) ==
    IF IndexOf(ToLowerCase(sub.SubscriptionArn), "pending") = -1 THEN FALSE
    ELSE \/ sub.Protocol = protocol
         \/ (Truthy("lambda") /\ (sub.Endpoint = httpEndpoint \/ sub.Endpoint = fnArn))

\* The predicate _getSubscriptionInfo hands to _.find.
IsExisting(sub, protocol, httpEndpoint, fnArn) ==
    IF IndexOf(ToLowerCase(sub.SubscriptionArn), "pending") # -1 THEN FALSE
    ELSE \/ sub.Protocol = protocol
         \/ (Truthy("lambda") /\ (sub.Endpoint = httpEndpoint \/ sub.Endpoint = fnArn))

\* _.find(resp.Subscriptions, ...) || {}, and the info built from it.
GetSubscriptionInfo(listed, protocol, httpEndpoint, fnArn, topicArn) ==
    LET hits     == { k \in DOMAIN listed : IsExisting(listed[k], protocol, httpEndpoint, fnArn) }
        found    == hits # {}
        existing == listed[CHOOSE k \in hits : \A l \in hits : k <= l]
    IN  [ FunctionArn     |-> fnArn,
          TopicArn        |-> topicArn,
          SubscriptionArn |-> IF found THEN existing.SubscriptionArn ELSE Undefined,
          Endpoint        |-> IF found THEN existing.Endpoint ELSE Undefined ]

\* _setSubscriptionAttributes without its test of the identifier.
SetSubscriptionAttributesSendsAlways(subscriptionArn) == TRUE

\* Whether _setSubscriptionAttributes issues the request (it resolves with a
\* message when the identifier is empty).
SetSubscriptionAttributesSends(subscriptionArn) == Truthy(subscriptionArn)

\* Whether the subscribe response is taken as awaiting confirmation.
IsPendingConfirmation(subscriptionArn) ==
    IndexOf(ToLowerCase(subscriptionArn), "pending confirmation") # -1

\* JSON.stringify({ healthyRetryPolicy: attribute.value })
AttributeValue(value) == "{\"healthyRetryPolicy\":" \o Str(value) \o "}"

\* String.prototype.toUpperCase, one character.
UpperChar(c) ==
    IF \E i \in 1..26 : CharAt(LowerCaseLetters, i) = c
    THEN CharAt(UpperCaseLetters, CHOOSE i \in 1..26 : CharAt(LowerCaseLetters, i) = c)
    ELSE c

\* Whether the character is in the class [0-9A-Za-z].
IsAlphanumeric(c) ==
    \/ IndexOf(Digits, c) # -1
    \/ IndexOf(UpperCaseLetters, c) # -1
    \/ IndexOf(LowerCaseLetters, c) # -1

\* arn.replace(/[^0-9A-Za-z]/g, '')
RECURSIVE StripNonAlphanumeric(_)
StripNonAlphanumeric(s) ==
    IF s = "" THEN ""
    ELSE (IF IsAlphanumeric(CharAt(s, 1)) THEN CharAt(s, 1) ELSE "")
         \o StripNonAlphanumeric(SubSeq(s, 2, Len(s)))

\* _normalize: undefined for an empty value, else the first character in upper case.
Normalize(s) ==
    IF s \in { Undefined, Null, "" } THEN Undefined
    ELSE UpperChar(CharAt(s, 1)) \o SubSeq(s, 2, Len(s))

\* _normalizeTopicName
NormalizeTopicName(arn) == Normalize(StripNonAlphanumeric(arn))

\* permRef in addEventPermission.
PermRef(fnName, topicName) ==
    Str(Normalize(fnName)) \o "LambdaPermission" \o Str(NormalizeTopicName(topicName))

\* permission in addEventPermission.
Permission(fnName, topicName) ==
    [ Type       |-> "AWS::Lambda::Permission",
      Properties |-> [ FunctionName |-> << "Fn::GetAtt", Str(Normalize(fnName)) \o "LambdaFunction", "Arn" >>,
                       Action       |-> "lambda:InvokeFunction",
                       Principal    |-> "sns.amazonaws.com",
                       SourceArn    |-> << "Fn::Join", ":", "arn:aws:sns", "Ref:AWS::Region",
                                           "Ref:AWS::AccountId", topicName >> ] ]

\* Resources[permRef] = permission
Put(res, key, value) ==
    [ k \in DOMAIN res \cup { key } |-> IF k = key THEN value ELSE res[k] ]

\* addEventPermission giving every resource a key of its own: the identifier is
\* followed by the number of resources the template holds.
AddEventPermissionNumbered(res, call) ==
    LET topicName == TopicNameOf(call.topicName)
    IN  Put(res, PermRef(call.fnName, topicName) \o CharAt(Digits, Cardinality(DOMAIN res) + 1),
            Permission(call.fnName, topicName))

\* addEventPermission(fnName, fnDef, topicName): the template's Resources after it.
AddEventPermission(res, call) ==
    LET topicName == TopicNameOf(call.topicName)
    IN  Put(res, PermRef(call.fnName, topicName), Permission(call.fnName, topicName))

\* _loopEvents.bind(this, this.addEventPermission)(): the calls from the k-th on.
RECURSIVE CompileEvents(_, _, _)
CompileEvents(res, calls, k) ==
    IF k > Len(calls) THEN res
    ELSE CompileEvents(AddEventPermission(res, calls[k]), calls, k + 1)

-----------------------------------------------------------------------------
(* State *)

VARIABLES
    functions,      \* this._serverless.service.functions, in key order
    opts,           \* this._opts of the running command: noDeploy, stage, region
    restApis,       \* API Gateway: the items getRestApis returns
    subscriptions,  \* SNS: every subscription, in list order
    nextId,         \* SNS: the number of subscriptions created so far
    served,         \* SNS: the mutating requests of the running hook's actions handled so far
    tasks,          \* the actions started by the running hook, in call order
    history,        \* how the actions of the earlier hooks ended
    hooksRun,       \* the number of hooks run so far
    resources       \* service.provider.compiledCloudFormationTemplate.Resources

vars == << functions, opts, restApis, subscriptions, nextId, served, tasks, history, hooksRun, resources >>

\* The number of hook runs (_loopEvents calls) in one behaviour.
MaxHooks == 2

NoInfo ==
    [ FunctionArn |-> Undefined, TopicArn |-> Undefined,
      SubscriptionArn |-> Undefined, Endpoint |-> Undefined ]

Finished == { "done", "failed" }

\* An action as it is called by _loopEvents, before it has done anything.
\*   pc       the request the action waits on, or delay, done, failed
\*   phase    which call of _getSubscriptionInfo is under way
\*   args     that call's protocol and httpEndpoint arguments
\*   log      what the action has done so far: its requests, and the delay
\*   rejected the position in the log of the request that was rejected, or 0
NewTask(kind, call) ==
    [ kind      |-> kind,
      fn        |-> call.fn,
      ev        |-> call.ev,
      fnName    |-> call.fnName,
      binding   |-> call.topicName,
      pc        |-> "start",
      phase     |-> "resolve",
      topicName |-> TopicNameOf(call.topicName),
      protocol  |-> Undefined,
      hasAttrs  |-> FALSE,
      attrValue |-> Undefined,
      endpoint  |-> Undefined,
      args      |-> [ protocol |-> Undefined, httpEndpoint |-> Undefined ],
      fnArn     |-> Undefined,
      topicArn  |-> Undefined,
      listed    |-> << >>,
      info      |-> NoInfo,
      response  |-> Undefined,
      newInfo   |-> NoInfo,
      result    |-> Undefined,
      log       |-> << >>,
      rejected  |-> 0 ]

\* provider.request(service, op, params, ...): the request goes out and the
\* action waits for its response.
Request(t, req) == [ t EXCEPT !.pc = req[1], !.log = Append(@, req) ]

\* _getSubscriptionInfo sending listSubscriptionsByTopic along with getFunction,
\* not in the continuation on getFunction's response.
CallGetSubscriptionInfoUnchained(t, phase, protocol, httpEndpoint) ==
    Request(Request([ t EXCEPT !.phase = phase,
                               !.args = [ protocol |-> protocol, httpEndpoint |-> httpEndpoint ] ],
                    << "getFunction", functions[t.fn].name >>),
            << "listSubscriptionsByTopic", t.topicArn >>)

\* _getSubscriptionInfo(fnDef, topicName, protocol, httpEndpoint), up to its
\* getFunction request.
CallGetSubscriptionInfo(t, phase, protocol, httpEndpoint) ==
    Request([ t EXCEPT !.phase = phase,
                       !.args = [ protocol |-> protocol, httpEndpoint |-> httpEndpoint ] ],
            << "getFunction", functions[t.fn].name >>)

\* _setSubscriptionAttributes waiting once more when the identifier is empty.
SetSubscriptionAttributesPolling(t, subscriptionArn) ==
    IF SetSubscriptionAttributesSends(subscriptionArn)
    THEN Request(t, << "setSubscriptionAttributes", subscriptionArn, DELIVERY_POLICY_ATTR,
                       AttributeValue(t.attrValue) >>)
    ELSE [ t EXCEPT !.pc = "delay" ]

\* _setSubscriptionAttributes(subscriptionArn, attribute)
SetSubscriptionAttributes(t, subscriptionArn) ==
    IF SetSubscriptionAttributesSends(subscriptionArn)
    THEN Request(t, << "setSubscriptionAttributes", subscriptionArn, DELIVERY_POLICY_ATTR,
                       AttributeValue(t.attrValue) >>)
    ELSE [ t EXCEPT !.pc = "done", !.result = "Subscription ARN was empty" ]

\* subscribeFunction without the noDeploy return.
SubscribeFunctionDeploying(call, o) ==
    Request([ NewTask("subscribe", call) EXCEPT
                 !.protocol  = ProtocolOf(call.topicName),
                 !.hasAttrs  = HasSubscriptionAttrs(call.topicName),
                 !.attrValue = SubscriptionAttrsValue(call.topicName) ],
            << "getRestApis" >>)

\* subscribeFunction up to its return: the binding is taken apart, and unless
\* noDeploy is set _getFunctionEndpoint sends getRestApis.
SubscribeFunction(call, o) ==
    LET t == [ NewTask("subscribe", call) EXCEPT
                 !.protocol  = ProtocolOf(call.topicName),
                 !.hasAttrs  = HasSubscriptionAttrs(call.topicName),
                 !.attrValue = SubscriptionAttrsValue(call.topicName) ]
    IN  IF o.noDeploy THEN [ t EXCEPT !.pc = "done" ]
        ELSE Request(t, << "getRestApis" >>)

\* unsubscribeFunction resolving as subscribeFunction does, with a protocol.
UnsubscribeFunctionWithProtocol(call) ==
    CallGetSubscriptionInfo(NewTask("unsubscribe", call),
                            "resolve", "lambda", Null)

\* unsubscribeFunction up to its return: _getSubscriptionInfo(fnDef, topicName).
UnsubscribeFunction(call) ==
    CallGetSubscriptionInfo(NewTask("unsubscribe", call),
                            "resolve", Undefined, Undefined)

\* addEventPermission as an action of its hook: it returns, with nothing to wait
\* for, once the resource is in the template.
AddEventPermissionCall(call) ==
    [ NewTask("compile", call) EXCEPT
         !.pc = "done", !.result = PermRef(call.fnName, TopicNameOf(call.topicName)) ]

\* _loopEvents.bind(this, fn)(): every call is made before any response arrives.
StartAll(kind, o) ==
    LET calls == LoopEvents(functions, 1)
    IN  [ k \in 1..Len(calls) |->
            IF kind = "subscribe" THEN SubscribeFunction(calls[k], o)
            ELSE IF kind = "compile" THEN AddEventPermissionCall(calls[k])
            ELSE UnsubscribeFunction(calls[k]) ]

\* What is kept of a finished action once its hook's command has ended: the hook
\* and its noDeploy option, the call, how it ended, and the identifier of the
\* subscription it found or was given.
Ended(t) ==
    [ hook |-> hooksRun, noDeploy |-> opts.noDeploy,
      kind |-> t.kind, fn |-> t.fn, ev |-> t.ev, pc |-> t.pc,
      SubscriptionArn |-> OrElse(t.info.SubscriptionArn, t.response) ]

-----------------------------------------------------------------------------
(* Initial states: a service, the options of the run, and what is deployed *)

\* The options of a command; noDeploy is given, or not, with each command.
Options(region) == [ noDeploy |-> FALSE, stage |-> "dev", region |-> region ]

\* What getRestApis returns when the service's gateway is deployed, behind another.
Deployed == << [ name |-> "dev-other", id |-> "q7x" ], [ name |-> "dev-svc", id |-> "a1b" ] >>

Scenarios ==
    { [ functions |-> ServiceOrders, opts |-> Options(Undefined),   restApis |-> << >> ],
      [ functions |-> ServiceHook,   opts |-> Options("eu-west-1"), restApis |-> Deployed ],
      [ functions |-> ServiceHook,   opts |-> Options(Undefined),   restApis |-> << >> ],
      [ functions |-> ServiceRelay,  opts |-> Options(Undefined),   restApis |-> Deployed ] }

Init ==
    /\ \E sc \in Scenarios :
          /\ functions = sc.functions
          /\ opts = sc.opts
          /\ restApis = sc.restApis
    /\ subscriptions = << >>
    /\ history = {}
    /\ nextId = 0
    /\ served = {}
    /\ tasks = << >>
    /\ hooksRun = 0
    /\ resources = << >>

-----------------------------------------------------------------------------
(* The hooks *)

\* A hook runs in a command of its own, and a command's process ends only when
\* every request of its actions has been answered.
Quiescent == \A i \in DOMAIN tasks : tasks[i].pc \in Finished

\* 'deploy:deploy' and 'subscribeExternalSNS:subscribe'
Deploy ==
    /\ hooksRun < MaxHooks
    /\ Quiescent
    /\ \E noDeploy \in BOOLEAN : opts' = [ opts EXCEPT !.noDeploy = noDeploy ]
    /\ tasks' = StartAll("subscribe", opts')
    /\ history' = history \cup { Ended(tasks[i]) : i \in DOMAIN tasks }
    /\ served' = {}
    /\ hooksRun' = hooksRun + 1
    /\ UNCHANGED << resources, functions, restApis, subscriptions, nextId >>

\* 'before:remove:remove' and 'unsubscribeExternalSNS:unsubscribe'
Remove ==
    /\ hooksRun < MaxHooks
    /\ Quiescent
    /\ opts' = [ opts EXCEPT !.noDeploy = FALSE ]
    /\ tasks' = StartAll("unsubscribe", opts')
    /\ history' = history \cup { Ended(tasks[i]) : i \in DOMAIN tasks }
    /\ served' = {}
    /\ hooksRun' = hooksRun + 1
    /\ UNCHANGED << resources, functions, restApis, subscriptions, nextId >>

\* 'deploy:compileEvents': a permission resource for every binding, in call order.
Compile ==
    /\ hooksRun < MaxHooks
    /\ Quiescent
    /\ opts' = [ opts EXCEPT !.noDeploy = FALSE ]
    /\ resources' = CompileEvents(resources, LoopEvents(functions, 1), 1)
    /\ tasks' = StartAll("compile", opts')
    /\ history' = history \cup { Ended(tasks[i]) : i \in DOMAIN tasks }
    /\ served' = {}
    /\ hooksRun' = hooksRun + 1
    /\ UNCHANGED << functions, restApis, subscriptions, nextId >>

-----------------------------------------------------------------------------
(* The steps of an action: a response arrives and its continuation runs *)

\* The operations of provider.request the plugin uses.
RequestOps ==
    { "getRestApis", "getFunction", "listSubscriptionsByTopic",
      "subscribe", "unsubscribe", "setSubscriptionAttributes" }

\* A rejection handled by retrying: the same request goes out again.
RejectedRetried(t) == Request(t, t.log[Len(t.log)])

\* The promise of a request is rejected: no continuation of the chain has a
\* rejection handler, so none of them runs and the action's promise is rejected.
Rejected(t) == [ t EXCEPT !.pc = "failed" ]

\* subscribeFunction, lines 107-110: the endpoint is known, resolution starts.
RestApisResponse(i) ==
    LET t          == tasks[i]
        id         == GetRestApiId(restApis, ApiGatewayName(opts.stage))
        fnEndpoint == GetFunctionEndpoint(functions[t.fn], id, opts)
    IN  /\ t.pc = "getRestApis"
        /\ tasks' = [ tasks EXCEPT ![i] =
              CallGetSubscriptionInfo([ t EXCEPT !.endpoint = fnEndpoint ],
                                      "resolve", t.protocol, OrElse(fnEndpoint, Null)) ]
        /\ UNCHANGED << resources, functions, opts, restApis, subscriptions, nextId, served, history, hooksRun >>

\* _getSubscriptionInfo, lines 184-198: the ARNs are derived and the topic's
\* subscriptions are asked for.
GetFunctionResponse(i) ==
    LET t        == tasks[i]
        fnArn    == FunctionArnOf(opts, functions[t.fn].name)
        topicArn == TopicArnOf(fnArn, t.topicName)
    IN  /\ t.pc = "getFunction"
        /\ tasks' = [ tasks EXCEPT ![i] =
              Request([ t EXCEPT !.fnArn = fnArn, !.topicArn = topicArn ],
                      << "listSubscriptionsByTopic", topicArn >>) ]
        /\ UNCHANGED << resources, functions, opts, restApis, subscriptions, nextId, served, history, hooksRun >>

\* _getSubscriptionInfo, lines 200-217, on the list the topic has now.
Resolved(t) ==
    LET listed == ListSubscriptionsByTopic(subscriptions, t.topicArn)
    IN  [ t EXCEPT !.listed = listed ]

InfoOf(t) ==
    GetSubscriptionInfo(t.listed, t.args.protocol, t.args.httpEndpoint, t.fnArn, t.topicArn)

\* Lines 111-128 without the test for an existing subscription.
SubscribeOnInfoAlways(t, info) ==
    LET u == [ t EXCEPT !.info = info, !.endpoint = OrElse(t.endpoint, info.FunctionArn) ]
    IN  Request(u, << "subscribe", info.TopicArn, u.protocol, u.endpoint >>)

\* subscribeFunction, lines 111-128.
SubscribeOnInfo(t, info) ==
    LET u == [ t EXCEPT !.info = info, !.endpoint = OrElse(t.endpoint, info.FunctionArn) ]
    IN  IF Truthy(info.SubscriptionArn)
        THEN IF u.hasAttrs /\ Truthy(info.SubscriptionArn)
             THEN SetSubscriptionAttributes(u, info.SubscriptionArn)
             ELSE [ u EXCEPT !.pc = "done" ]
        ELSE Request(u, << "subscribe", info.TopicArn, u.protocol, u.endpoint >>)

SubscribeResolved(i) ==
    LET t == Resolved(tasks[i])
    IN  /\ tasks[i].pc = "listSubscriptionsByTopic"
        /\ t.kind = "subscribe" /\ t.phase = "resolve"
        /\ tasks' = [ tasks EXCEPT ![i] = SubscribeOnInfo(t, InfoOf(t)) ]
        /\ UNCHANGED << resources, functions, opts, restApis, subscriptions, nextId, served, history, hooksRun >>

\* Lines 129-146 without the pending test: the policy goes to the response's identifier.
SubscribeOnResponseNoWait(t, arn) ==
    LET u == [ t EXCEPT !.response = arn ]
    IN  IF u.hasAttrs /\ Truthy(arn)
        THEN SetSubscriptionAttributes(u, arn)
        ELSE [ u EXCEPT !.pc = "done" ]

\* subscribeFunction, lines 129-146, on the response's SubscriptionArn.
SubscribeOnResponse(t, arn) ==
    LET u == [ t EXCEPT !.response = arn ]
    IN  IF u.hasAttrs /\ Truthy(arn)
        THEN IF IsPendingConfirmation(arn)
             THEN [ u EXCEPT !.pc = "delay" ]
             ELSE SetSubscriptionAttributes(u, arn)
        ELSE [ u EXCEPT !.pc = "done" ]

\* SNS subscribe.  The subscription is confirmed at once, or awaits confirmation;
\* a request for a (topic, protocol, endpoint) SNS already holds may be answered
\* with the subscription it holds.
SubscribeResponse(i) ==
    LET t    == tasks[i]
        req  == t.log[Len(t.log)]
        same == { k \in DOMAIN subscriptions :
                    /\ subscriptions[k].TopicArn = req[2]
                    /\ subscriptions[k].Protocol = req[3]
                    /\ subscriptions[k].Endpoint = req[4] }
    IN  /\ t.pc = "subscribe"
        /\ \/ LET arn == ConfirmedArn(req[2], nextId)
              IN  /\ subscriptions' = Append(subscriptions, Subscription(arn, req[2], req[3], req[4], nextId, << t.fn, t.ev >>))
                  /\ nextId' = nextId + 1
                  /\ served' = served \cup { << i, "subscribe" >> }
                  /\ tasks' = [ tasks EXCEPT ![i] = SubscribeOnResponse(t, arn) ]
           \/ \E arn \in PendingResponses :
                  /\ subscriptions' = Append(subscriptions,
                                             Subscription(PendingConfirmation, req[2], req[3], req[4], nextId, << t.fn, t.ev >>))
                  /\ nextId' = nextId + 1
                  /\ served' = served \cup { << i, "subscribe" >> }
                  /\ tasks' = [ tasks EXCEPT ![i] = SubscribeOnResponse(t, arn) ]
           \/ \E k \in same :
                  /\ UNCHANGED << subscriptions, nextId >>
                  /\ served' = served \cup { << i, "subscribe" >> }
                  /\ tasks' = [ tasks EXCEPT ![i] = SubscribeOnResponse(t,
                        IF subscriptions[k].SubscriptionArn = PendingConfirmation
                        THEN "pending confirmation"
                        ELSE subscriptions[k].SubscriptionArn) ]
        /\ UNCHANGED << resources, functions, opts, restApis, history, hooksRun >>

\* BpPromise.delay(10000) has elapsed: lines 134-136.
DelayElapsed(i) ==
    LET t == tasks[i]
    IN  /\ t.pc = "delay"
        /\ tasks' = [ tasks EXCEPT ![i] =
              CallGetSubscriptionInfo([ t EXCEPT !.log = Append(@, << "delay", "10000" >>) ],
                                      "recheck", t.protocol, Undefined) ]
        /\ UNCHANGED << resources, functions, opts, restApis, subscriptions, nextId, served, history, hooksRun >>

\* subscribeFunction, lines 137-140.
SubscribeRechecked(i) ==
    LET t       == Resolved(tasks[i])
        newInfo == InfoOf(t)
    IN  /\ tasks[i].pc = "listSubscriptionsByTopic"
        /\ t.kind = "subscribe" /\ t.phase = "recheck"
        /\ tasks' = [ tasks EXCEPT ![i] =
              SetSubscriptionAttributes([ t EXCEPT !.newInfo = newInfo ], newInfo.SubscriptionArn) ]
        /\ UNCHANGED << resources, functions, opts, restApis, subscriptions, nextId, served, history, hooksRun >>

\* SNS setSubscriptionAttributes: stored, or refused when there is no such subscription.
SetAttributesResponse(i) ==
    LET t   == tasks[i]
        req == t.log[Len(t.log)]
    IN  /\ t.pc = "setSubscriptionAttributes"
        /\ IF \E k \in DOMAIN subscriptions : subscriptions[k].SubscriptionArn = req[2]
           THEN /\ subscriptions' = SetAttribute(subscriptions, req[2], req[4])
                /\ served' = served \cup { << i, "setSubscriptionAttributes" >> }
                /\ tasks' = [ tasks EXCEPT ![i].pc = "done" ]
           ELSE /\ UNCHANGED << subscriptions, served >>
                /\ tasks' = [ tasks EXCEPT ![i] = Rejected([ t EXCEPT !.rejected = Len(t.log) ]) ]
        /\ UNCHANGED << resources, functions, opts, restApis, nextId, history, hooksRun >>

\* Lines 159-167 without the early return.
UnsubscribeOnInfoAlways(t, info) ==
    Request([ t EXCEPT !.info = info ], << "unsubscribe", info.SubscriptionArn >>)

\* unsubscribeFunction, lines 159-167.
UnsubscribeOnInfo(t, info) ==
    LET u == [ t EXCEPT !.info = info ]
    IN  IF ~Truthy(info.SubscriptionArn)
        THEN [ u EXCEPT !.pc = "done" ]
        ELSE Request(u, << "unsubscribe", info.SubscriptionArn >>)

UnsubscribeResolved(i) ==
    LET t == Resolved(tasks[i])
    IN  /\ tasks[i].pc = "listSubscriptionsByTopic"
        /\ t.kind = "unsubscribe"
        /\ tasks' = [ tasks EXCEPT ![i] = UnsubscribeOnInfo(t, InfoOf(t)) ]
        /\ UNCHANGED << resources, functions, opts, restApis, subscriptions, nextId, served, history, hooksRun >>

\* SNS unsubscribe, and lines 168-174.
UnsubscribeResponse(i) ==
    LET t   == tasks[i]
        req == t.log[Len(t.log)]
    IN  /\ t.pc = "unsubscribe"
        /\ subscriptions' = Unsubscribe(subscriptions, req[2])
        /\ served' = served \cup { << i, "unsubscribe" >> }
        /\ tasks' = [ tasks EXCEPT ![i].pc = "done" ]
        /\ UNCHANGED << resources, functions, opts, restApis, nextId, history, hooksRun >>

\* The endpoint's owner confirms a subscription that awaits confirmation.
Confirm(k) ==
    /\ subscriptions[k].SubscriptionArn = PendingConfirmation
    /\ subscriptions' = [ subscriptions EXCEPT
          ![k].SubscriptionArn = ConfirmedArn(subscriptions[k].TopicArn, subscriptions[k].id) ]
    /\ UNCHANGED << resources, functions, opts, restApis, nextId, served, tasks, history, hooksRun >>

\* A request fails (the service refuses it, or cannot be reached).
Fail(i) ==
    LET t == tasks[i]
    IN  /\ t.pc \in RequestOps
        /\ tasks' = [ tasks EXCEPT ![i] = Rejected([ t EXCEPT !.rejected = Len(t.log) ]) ]
        /\ UNCHANGED << resources, functions, opts, restApis, subscriptions, nextId, served, history, hooksRun >>

Next ==
    \/ Compile
    \/ Deploy
    \/ Remove
    \/ \E i \in DOMAIN tasks : RestApisResponse(i)
    \/ \E i \in DOMAIN tasks : GetFunctionResponse(i)
    \/ \E i \in DOMAIN tasks : SubscribeResolved(i)
    \/ \E i \in DOMAIN tasks : SubscribeResponse(i)
    \/ \E i \in DOMAIN tasks : DelayElapsed(i)
    \/ \E i \in DOMAIN tasks : SubscribeRechecked(i)
    \/ \E i \in DOMAIN tasks : SetAttributesResponse(i)
    \/ \E i \in DOMAIN tasks : UnsubscribeResolved(i)
    \/ \E i \in DOMAIN tasks : UnsubscribeResponse(i)
    \/ \E k \in DOMAIN subscriptions : Confirm(k)

Spec == Init /\ [][Next]_vars

-----------------------------------------------------------------------------
(* The same hooks and steps, with requests that may fail *)

ScenariosFailing ==
    { [ functions |-> ServiceHook,   opts |-> Options("eu-west-1"), restApis |-> Deployed ],
      [ functions |-> ServiceRelay,  opts |-> Options(Undefined),   restApis |-> Deployed ] }

InitFailing ==
    /\ Init
    /\ \E sc \in ScenariosFailing :
          /\ functions = sc.functions
          /\ opts = sc.opts
          /\ restApis = sc.restApis

NextFailing ==
    \/ Next
    \/ \E i \in DOMAIN tasks : Fail(i)

SpecFailing == InitFailing /\ [][NextFailing]_vars

-----------------------------------------------------------------------------
(* The compile hook alone, on services whose names normalise alike *)

CompileTopics == { "orders", "my-topic", "my_topic" }

CompileBindings ==
    { [ str |-> n ] : n \in CompileTopics } \cup { [ topic |-> n ] : n \in CompileTopics }

\* notify with two bindings and audit with one.
CompileServices ==
    { << [ key |-> "notify", name |-> "svc-dev-notify",
           events |-> << [ externalSNS |-> b1 ], [ http |-> [ method |-> "get", path |-> "n" ] ],
                         [ externalSNS |-> b2 ] >> ],
         [ key |-> "audit", name |-> "svc-dev-audit",
           events |-> << [ externalSNS |-> b3 ] >> ] >> :
      b1 \in CompileBindings, b2 \in CompileBindings, b3 \in CompileBindings }

InitCompile ==
    /\ functions \in CompileServices
    /\ opts = Options(Undefined)
    /\ restApis = << >>
    /\ subscriptions = << >>
    /\ history = {}
    /\ nextId = 0
    /\ served = {}
    /\ tasks = << >>
    /\ hooksRun = 0
    /\ resources = << >>

NextCompile == Compile

SpecCompile == InitCompile /\ [][NextCompile]_vars

-----------------------------------------------------------------------------
(* Vocabulary of the properties *)

\* The positions of the action's log that hold a request of this operation.
Requests(t, op) == { p \in DOMAIN t.log : t.log[p][1] = op }

\* The operations of the log, in order.
Ops(t) == [ p \in DOMAIN t.log |-> t.log[p][1] ]

Mutating == { "subscribe", "unsubscribe", "setSubscriptionAttributes" }

\* The action has got the info of its first _getSubscriptionInfo call.
HasInfo(t) ==
    \/ t.phase = "recheck"
    \/ t.pc \notin { "start", "getRestApis", "getFunction", "listSubscriptionsByTopic" }

\* The action has got the info of its second _getSubscriptionInfo call.
HasNewInfo(t) ==
    t.phase = "recheck" /\ t.pc \notin { "getFunction", "listSubscriptionsByTopic" }

\* A listed subscription that is not awaiting confirmation.
Active(sub) == IndexOf(ToLowerCase(sub.SubscriptionArn), "pending") = -1

\* The subscribe action of the previous hook (noDeploy unset) for the same function
\* and binding, if it completed.
CompletedBefore(t) ==
    { h \in history : /\ h.hook = hooksRun - 1 /\ ~h.noDeploy
                      /\ h.kind = "subscribe" /\ h.fn = t.fn /\ h.ev = t.ev /\ h.pc = "done" }

-----------------------------------------------------------------------------
(* C1 *)

\* C1 as stated: when subscribeFunction is called for a function and binding after
\* an earlier call for the same function and binding has completed (noDeploy
\* unset), the second call's resolver finds an existing subscription and the
\* second call issues no subscribe request.
SecondSubscribeFindsExisting ==
    \A i \in DOMAIN tasks :
        LET t == tasks[i]
        IN  (t.kind = "subscribe" /\ ~opts.noDeploy /\ CompletedBefore(t) # {})
            => /\ Requests(t, "subscribe") = {}
               /\ HasInfo(t) => Truthy(t.info.SubscriptionArn)

\* The subscription of an earlier completed call h is in the list the action got,
\* and is active there: the one h found or was given, or one h's request created.
ListedActive(t, h) ==
    \E k \in DOMAIN t.listed :
        /\ Active(t.listed[k])
        /\ \/ t.listed[k].SubscriptionArn = h.SubscriptionArn
           \/ t.listed[k].by = << t.fn, t.ev >>

\* C1, amended: when subscribeFunction is called after an earlier call for the
\* same function and binding has completed, and the subscription the earlier call
\* found or created is listed as active (not awaiting confirmation) when the
\* second call lists the topic's subscriptions, the second call's resolver finds
\* an existing subscription and the second call issues no subscribe request, so
\* it adds no subscription.
SecondSubscribeFindsActive ==
    \A i \in DOMAIN tasks :
        LET t == tasks[i]
        IN  (/\ t.kind = "subscribe" /\ ~opts.noDeploy
             /\ t.phase = "resolve" /\ HasInfo(t)
             /\ \E h \in CompletedBefore(t) : ListedActive(t, h))
            => /\ Truthy(t.info.SubscriptionArn)
               /\ Requests(t, "subscribe") = {}
               /\ << i, "subscribe" >> \notin served

\* A second call has completed after listing the first call's active subscription.
SecondSubscribeWitness ==
    \E i \in DOMAIN tasks :
        LET t == tasks[i]
        IN  /\ t.kind = "subscribe" /\ ~opts.noDeploy
            /\ t.pc = "done"
            /\ \E h \in CompletedBefore(t) : ListedActive(t, h)

-----------------------------------------------------------------------------
(* C2 *)

\* The endpoints a subscription of function f can have: its ARN, its invoke URL.
EndpointsOf(f) ==
    { FunctionArnOf(opts, functions[f].name),
      GetFunctionEndpoint(functions[f], GetRestApiId(restApis, ApiGatewayName(opts.stage)), opts) }

-----------------------------------------------------------------------------
(* C3 *)

\* The info of the action's latest _getSubscriptionInfo call, once it has it.
LatestInfo(t) == IF t.phase = "recheck" THEN t.newInfo ELSE t.info

HasLatestInfo(t) == IF t.phase = "recheck" THEN HasNewInfo(t) ELSE HasInfo(t)

\* C3 as stated: the subscription _getSubscriptionInfo returns as existing has the
\* requested protocol (default "lambda") and has the explicit endpoint or the
\* function ARN as endpoint; when no listed subscription has both, SubscriptionArn
\* and Endpoint are absent from the result.
ExistingHasProtocolAndEndpoint ==
    \A i \in DOMAIN tasks :
        LET t        == tasks[i]
            info     == LatestInfo(t)
            protocol == OrElse(t.args.protocol, "lambda")
            Both(sub) == /\ sub.Protocol = protocol
                         /\ (sub.Endpoint = t.args.httpEndpoint \/ sub.Endpoint = t.fnArn)
        IN  HasLatestInfo(t)
            => /\ Truthy(info.SubscriptionArn)
                    => \E k \in DOMAIN t.listed :
                          /\ t.listed[k].SubscriptionArn = info.SubscriptionArn
                          /\ t.listed[k].Endpoint = info.Endpoint
                          /\ Both(t.listed[k])
               /\ (\A k \in DOMAIN t.listed : ~Both(t.listed[k]))
                    => (info.SubscriptionArn = Undefined /\ info.Endpoint = Undefined)

-----------------------------------------------------------------------------
(* C4 *)

IsPrefix(a, b) == Len(a) <= Len(b) /\ a = SubSeq(b, 1, Len(a))

\* The action asked for a delivery policy and its subscribe response says, in any
\* case of letters, "pending confirmation".
WasPending(t) ==
    /\ t.kind = "subscribe" /\ t.hasAttrs /\ Truthy(t.response)
    /\ IndexOf(ToLowerCase(t.response), "pending confirmation") # -1

\* C4: after a subscribe response that says "pending confirmation" (any case),
\* with a delivery policy requested, the action does, in this order and nothing
\* else: the delay, the requests of the second resolution, the
\* setSubscriptionAttributes request; that request carries the identifier the
\* second resolution returned, never the response's pending identifier.
PendingWaitsThenResolvesThenApplies ==
    \A i \in DOMAIN tasks :
        LET t == tasks[i]
        IN  WasPending(t)
            => \E p \in Requests(t, "subscribe") :
                  /\ Requests(t, "subscribe") = { p }
                  /\ IsPrefix(SubSeq(Ops(t), p + 1, Len(t.log)),
                              << "delay", "getFunction", "listSubscriptionsByTopic",
                                 "setSubscriptionAttributes" >>)
                  /\ (p = Len(t.log)) = (t.pc = "delay")
                  /\ \A q \in Requests(t, "setSubscriptionAttributes") :
                        /\ HasNewInfo(t)
                        /\ t.log[q][2] = t.newInfo.SubscriptionArn
                        /\ t.log[q][2] # t.response
                        /\ IndexOf(ToLowerCase(t.log[q][2]), "pending") = -1

\* An action whose subscription was pending has applied the policy after the wait.
PendingAppliedWitness ==
    \E i \in DOMAIN tasks :
        /\ WasPending(tasks[i])
        /\ tasks[i].pc = "done"
        /\ Requests(tasks[i], "setSubscriptionAttributes") # {}

-----------------------------------------------------------------------------
(* C5 *)

\* C5: an unsubscribe action whose resolver found no subscription has completed
\* without error, has issued no request but those of the resolution, and no
\* mutating request of it has reached SNS.
UnsubscribeWithoutSubscriptionIsNoOp ==
    \A i \in DOMAIN tasks :
        LET t == tasks[i]
        IN  (t.kind = "unsubscribe" /\ HasInfo(t) /\ ~Truthy(t.info.SubscriptionArn))
            => /\ t.pc = "done"
               /\ Ops(t) = << "getFunction", "listSubscriptionsByTopic" >>
               /\ \A op \in Mutating : << i, op >> \notin served

\* An unsubscribe action has found nothing to remove while the topic has subscriptions.
UnsubscribeNoOpWitness ==
    \E i \in DOMAIN tasks :
        /\ tasks[i].kind = "unsubscribe" /\ HasInfo(tasks[i])
        /\ ~Truthy(tasks[i].info.SubscriptionArn)
        /\ tasks[i].listed # << >>

-----------------------------------------------------------------------------
(* C6 *)

\* The function's http events that have a path.
HttpEventsWithPath(fnDef) ==
    { k \in DOMAIN fnDef.events :
        /\ "http" \in DOMAIN fnDef.events[k]
        /\ "path" \in DOMAIN fnDef.events[k].http
        /\ Truthy(fnDef.events[k].http.path) }

\* The deployed gateways that have the service's gateway name.
Gateways == { k \in DOMAIN restApis : restApis[k].name = ApiGatewayName(opts.stage) }

InvokeUrl(k, path) ==
    INVOKE_URL_TEMPLATE(restApis[k].id, OrElse(opts.region, DEFAULT_REGION), opts.stage, path)

\* C6 as stated: the Endpoint of a subscribe request is the invoke URL when the
\* function has an http event with a path and a gateway of the service's name is
\* deployed, and the function ARN otherwise.
EndpointIsUrlOfAnyHttpPath ==
    \A i \in DOMAIN tasks : \A p \in Requests(tasks[i], "subscribe") :
        LET fnDef == functions[tasks[i].fn]
        IN  IF HttpEventsWithPath(fnDef) # {} /\ Gateways # {}
            THEN \E k \in Gateways : \E e \in HttpEventsWithPath(fnDef) :
                    tasks[i].log[p][4] = InvokeUrl(k, fnDef.events[e].http.path)
            ELSE tasks[i].log[p][4] = FunctionArnOf(opts, fnDef.name)

\* C6, amended: the Endpoint of a subscribe request is the invoke URL, built from
\* the first deployed gateway of the service's name and the path of the function's
\* first http event, when that first http event has a path and such a gateway is
\* deployed; it is the function ARN in every other case.
EndpointIsUrlOfFirstHttpPath ==
    \A i \in DOMAIN tasks : \A p \in Requests(tasks[i], "subscribe") :
        LET fnDef == functions[tasks[i].fn]
            https == { k \in DOMAIN fnDef.events : "http" \in DOMAIN fnDef.events[k] }
            first == CHOOSE k \in https : \A l \in https : k <= l
            gw    == CHOOSE k \in Gateways : \A l \in Gateways : k <= l
        IN  IF https # {} /\ first \in HttpEventsWithPath(fnDef) /\ Gateways # {}
            THEN tasks[i].log[p][4] = InvokeUrl(gw, fnDef.events[first].http.path)
            ELSE tasks[i].log[p][4] = FunctionArnOf(opts, fnDef.name)

\* Subscribe requests have gone out with an invoke URL as Endpoint.
EndpointUrlWitness ==
    \E i \in DOMAIN tasks : \E p \in Requests(tasks[i], "subscribe") :
        /\ Gateways # {}
        /\ tasks[i].log[p][4] # FunctionArnOf(opts, functions[tasks[i].fn].name)

-----------------------------------------------------------------------------
(* C7 *)

\* C7: under noDeploy every subscribe action has returned without a request, and
\* no mutating request of the hook has reached SNS.
NoDeployIssuesNoRequest ==
    \A i \in DOMAIN tasks :
        (tasks[i].kind = "subscribe" /\ opts.noDeploy)
        => /\ tasks[i].log = << >>
           /\ tasks[i].pc = "done"
           /\ served = {}

\* A noDeploy run of the subscribe hook against a topic that has subscriptions.
NoDeployWitness ==
    /\ opts.noDeploy
    /\ subscriptions # << >>
    /\ \E i \in DOMAIN tasks : tasks[i].kind = "subscribe"

-----------------------------------------------------------------------------
(* C8 *)

\* C8: no setSubscriptionAttributes request carries an empty identifier; an action
\* whose second resolution found no active subscription has completed with the
\* message of _setSubscriptionAttributes and has issued no such request.
EmptyIdentifierSendsNothing ==
    \A i \in DOMAIN tasks :
        LET t == tasks[i]
        IN  /\ \A p \in Requests(t, "setSubscriptionAttributes") : Truthy(t.log[p][2])
            /\ (HasNewInfo(t) /\ ~Truthy(t.newInfo.SubscriptionArn))
                 => /\ t.pc = "done"
                    /\ t.result = "Subscription ARN was empty"
                    /\ Requests(t, "setSubscriptionAttributes") = {}
                    /\ << i, "setSubscriptionAttributes" >> \notin served

\* A second resolution has found no active subscription.
EmptyIdentifierWitness ==
    \E i \in DOMAIN tasks :
        HasNewInfo(tasks[i]) /\ ~Truthy(tasks[i].newInfo.SubscriptionArn)

-----------------------------------------------------------------------------
(* C9 *)

\* The events that carry an externalSNS binding, as (function, event) positions.
Bindings ==
    { << f, e >> \in UNION { { f } \X DOMAIN functions[f].events : f \in DOMAIN functions } :
        "externalSNS" \in DOMAIN functions[f].events[e] }

\* C9: the actions a hook has started are one for every event with an externalSNS
\* binding, called with the function's name and that binding, none for any other
\* event, and those of one function are in the order of its events.
OneActionPerBindingInOrder ==
    hooksRun > 0
    => /\ \A b \in Bindings :
            \E i \in DOMAIN tasks :
                /\ << tasks[i].fn, tasks[i].ev >> = b
                /\ tasks[i].fnName = functions[b[1]].key
                /\ tasks[i].binding = functions[b[1]].events[b[2]].externalSNS
                /\ \A j \in DOMAIN tasks : << tasks[j].fn, tasks[j].ev >> = b => j = i
       /\ \A i \in DOMAIN tasks : << tasks[i].fn, tasks[i].ev >> \in Bindings
       /\ \A i, j \in DOMAIN tasks :
            (i < j /\ tasks[i].fn = tasks[j].fn) => tasks[i].ev < tasks[j].ev

\* A hook has started two actions for a function that also has other events.
LoopEventsWitness ==
    /\ hooksRun > 0
    /\ \E i, j \in DOMAIN tasks : i < j /\ tasks[i].fn = tasks[j].fn
    /\ \E f \in DOMAIN functions : \E e \in DOMAIN functions[f].events : << f, e >> \notin Bindings

-----------------------------------------------------------------------------
(* C10 *)

\* The positions of the action's log that hold a mutating request.
MutatingRequests(t) == { p \in DOMAIN t.log : t.log[p][1] \in Mutating }

\* C10: a subscribe action whose resolver found an existing subscription issues no
\* subscribe request; with a delivery policy requested its one mutating request is
\* setSubscriptionAttributes on the found identifier, and without it has none.
ExistingIsNotSubscribedAgain ==
    \A i \in DOMAIN tasks :
        LET t == tasks[i]
        IN  (t.kind = "subscribe" /\ HasInfo(t) /\ Truthy(t.info.SubscriptionArn))
            => /\ Requests(t, "subscribe") = {}
               /\ << i, "subscribe" >> \notin served
               /\ IF t.hasAttrs
                  THEN \E p \in DOMAIN t.log :
                          /\ MutatingRequests(t) = { p }
                          /\ t.log[p][1] = "setSubscriptionAttributes"
                          /\ t.log[p][2] = t.info.SubscriptionArn
                  ELSE /\ MutatingRequests(t) = {}
                       /\ t.pc = "done"
                       /\ \A op \in Mutating : << i, op >> \notin served

\* Two actions have found an existing subscription, one with a delivery policy
\* requested and one without, and have completed.
ExistingWitness ==
    \E i, j \in DOMAIN tasks :
        /\ tasks[i].kind = "subscribe" /\ tasks[j].kind = "subscribe"
        /\ tasks[i].pc = "done" /\ tasks[j].pc = "done"
        /\ Truthy(tasks[i].info.SubscriptionArn) /\ Truthy(tasks[j].info.SubscriptionArn)
        /\ tasks[i].hasAttrs /\ ~tasks[j].hasAttrs

-----------------------------------------------------------------------------
(* C11 *)

\* The object form {topic: name}, with no other key, of the bare string binding a.
Equivalent(a, b) ==
    /\ ~IsObject(a)
    /\ IsObject(b) /\ DOMAIN b = { "topic" }
    /\ b.topic = a.str

\* The action has built the info of its first _getSubscriptionInfo call.
Informed(t) == Truthy(t.info.FunctionArn)

\* C11: a binding given as the bare string and one given as {topic: name} give
\* the same topic name, protocol and (absent) subscription attributes, for every
\* topic name (a fact of the service and the options alone, evaluated before
\* the first hook); two actions of a hook for the same function whose bindings are
\* equivalent derive the same TopicArn, issue the same requests for as long as
\* no response is involved, and issue the same requests throughout when they got
\* the same list of subscriptions.
StringAndObjectFormAgree ==
    /\ hooksRun = 0
       => \A n \in CompileTopics : \A f \in DOMAIN functions :
             LET fnArn == FunctionArnOf(opts, functions[f].name)
             IN  /\ TopicNameOf([ str |-> n ]) = TopicNameOf([ topic |-> n ])
                 /\ ProtocolOf([ str |-> n ]) = ProtocolOf([ topic |-> n ])
                 /\ HasSubscriptionAttrs([ str |-> n ]) = HasSubscriptionAttrs([ topic |-> n ])
                 /\ TopicArnOf(fnArn, TopicNameOf([ str |-> n ]))
                       = TopicArnOf(fnArn, TopicNameOf([ topic |-> n ]))
    /\ \A i, j \in DOMAIN tasks :
          LET t == tasks[i]
              u == tasks[j]
          IN  (t.fn = u.fn /\ t.kind = u.kind /\ Equivalent(t.binding, u.binding))
              => /\ t.topicName = u.topicName
                 /\ t.protocol = u.protocol
                 /\ t.hasAttrs = u.hasAttrs
                 /\ (Truthy(t.topicArn) /\ Truthy(u.topicArn)) => t.topicArn = u.topicArn
                 /\ \A p \in DOMAIN t.log \cap DOMAIN u.log :
                       (t.log[p][1] \notin Mutating \/ t.listed = u.listed)
                       => t.log[p] = u.log[p]
                 /\ (Informed(t) /\ Informed(u) /\ t.listed = u.listed)
                    => t.info = u.info /\ t.log = u.log

\* Two subscribe actions with equivalent bindings have both found the topic's
\* list to hold the same subscriptions, one of them existing for the function.
StringAndObjectFormWitness ==
    \E i, j \in DOMAIN tasks :
        LET t == tasks[i]
            u == tasks[j]
        IN  /\ t.fn = u.fn /\ t.kind = "subscribe" /\ u.kind = "subscribe"
            /\ Equivalent(t.binding, u.binding)
            /\ Informed(t) /\ Informed(u)
            /\ t.listed = u.listed /\ t.listed # << >>
            /\ Truthy(t.info.SubscriptionArn)

-----------------------------------------------------------------------------
(* C12 *)

\* Identifiers that contain "pending" in some spelling.
PendingIdentifiers ==
    { PendingConfirmation, "pending confirmation", "PENDING",
      ConfirmedArn("arn:aws:sns:us-east-1:" \o AccountId \o ":Pending-orders", 0) }

\* C12: _getSubscriptionInfo's predicate rejects every subscription whose
\* identifier contains "pending" in any spelling, whatever its protocol and
\* endpoint (a fact of the service and the options alone, evaluated before the
\* first hook); the info an action got never carries such an identifier, and
\* carries none when every listed subscription is pending.
PendingIsNeverExisting ==
    /\ hooksRun = 0
       => \A arn \in PendingIdentifiers : \A f \in DOMAIN functions :
          \A protocol \in { "lambda", "https", Undefined } :
             LET fnArn == FunctionArnOf(opts, functions[f].name)
                 sub   == Subscription(arn, TopicArnOf(fnArn, "orders"), OrElse(protocol, "lambda"),
                                       fnArn, 0, << f, 1 >>)
             IN  /\ ~IsExisting(sub, protocol, Null, fnArn)
                 /\ ~IsExisting(sub, protocol, fnArn, fnArn)
                 /\ ~Truthy(GetSubscriptionInfo(<< sub, sub >>, protocol, Null, fnArn,
                                                sub.TopicArn).SubscriptionArn)
    /\ \A i \in DOMAIN tasks :
          LET t    == tasks[i]
              info == LatestInfo(t)
          IN  (t.kind # "compile" /\ HasLatestInfo(t))
              => /\ Truthy(info.SubscriptionArn)
                      => IndexOf(ToLowerCase(info.SubscriptionArn), "pending") = -1
                 /\ (\A k \in DOMAIN t.listed : ~Active(t.listed[k]))
                      => info.SubscriptionArn = Undefined /\ info.Endpoint = Undefined

\* An action was listed only pending subscriptions, one of them with the
\* protocol and the endpoint it asked for, and its info names no subscription.
PendingIsNeverExistingWitness ==
    \E i \in DOMAIN tasks :
        LET t == tasks[i]
        IN  /\ t.kind = "subscribe" /\ HasLatestInfo(t)
            /\ t.listed # << >>
            /\ \A k \in DOMAIN t.listed : ~Active(t.listed[k])
            /\ \E k \in DOMAIN t.listed :
                  /\ t.listed[k].Protocol = t.args.protocol
                  /\ t.listed[k].Endpoint \in { t.args.httpEndpoint, t.fnArn }
            /\ LatestInfo(t).SubscriptionArn = Undefined

-----------------------------------------------------------------------------
(* C13 *)

\* The (function name, topic name) pairs of the service's bindings.
BoundPairs ==
    { << functions[b[1]].key, TopicNameOf(functions[b[1]].events[b[2]].externalSNS) >> :
      b \in Bindings }

\* C13 as stated: two distinct (function name, topic name) pairs never get the
\* same resource key, so once the compile hook has run the template holds one
\* permission resource for every distinct pair of the service.
PermissionKeysDoNotCollide ==
    (hooksRun > 0 /\ tasks # << >> /\ tasks[1].kind = "compile")
    => /\ \A p, q \in BoundPairs : p # q => PermRef(p[1], p[2]) # PermRef(q[1], q[2])
       /\ Cardinality(DOMAIN resources) = Cardinality(BoundPairs)

-----------------------------------------------------------------------------
(* C14 *)

\* The last call of the running compile hook that wrote the key of call i.
LastWriter(ts, i) ==
    CHOOSE j \in DOMAIN ts :
        /\ ts[j].result = ts[i].result
        /\ \A k \in DOMAIN ts : ts[k].result = ts[i].result => k <= j

\* C14: a run of the compile hook leaves, under the key of each of its calls, the
\* permission of the last call with that key, and a run that follows a run leaves
\* the template as it was: the second run overwrites, and adds nothing.
CompileIsIdempotent ==
    [][ (hooksRun' = hooksRun + 1 /\ tasks' # << >> /\ tasks'[1].kind = "compile")
        => /\ \A i \in DOMAIN tasks' :
                /\ tasks'[i].result = PermRef(tasks'[i].fnName, tasks'[i].topicName)
                /\ tasks'[i].result \in DOMAIN resources'
                /\ resources'[tasks'[i].result]
                     = Permission(tasks'[LastWriter(tasks', i)].fnName,
                                  tasks'[LastWriter(tasks', i)].topicName)
           /\ (tasks # << >> /\ tasks[1].kind = "compile") => resources' = resources
      ]_vars

\* The compile hook has run twice on a service that binds a function twice to
\* the same topic, so that a key was written more than once in each run.
CompileTwiceWitness ==
    /\ hooksRun = 2
    /\ tasks # << >> /\ tasks[1].kind = "compile"
    /\ \E h \in history : h.kind = "compile" /\ h.hook = 1
    /\ \E i, j \in DOMAIN tasks :
          /\ i < j /\ tasks[i].fnName = tasks[j].fnName
          /\ tasks[i].topicName = tasks[j].topicName
          /\ tasks[i].result \in DOMAIN resources

-----------------------------------------------------------------------------
(* C15 *)

\* What the action holds of the response to a request of this operation.
Answered(t, op) ==
    CASE op = "getRestApis"              -> t.endpoint # Undefined
      [] op = "getFunction"              -> Truthy(t.fnArn) /\ Truthy(t.topicArn)
      [] op = "listSubscriptionsByTopic" -> Informed(t)
      [] op = "subscribe"                -> Truthy(t.response)
      [] OTHER                           -> t.pc \in Finished

\* C15: the request an action waits on is the last one it issued and every
\* earlier one has been answered, so at most one is outstanding; getFunction is
\* answered before listSubscriptionsByTopic is issued, for the topic ARN derived
\* from its answer, and both are answered before the action issues subscribe,
\* unsubscribe or setSubscriptionAttributes.
RequestsOneAtATimeInOrder ==
    \A i \in DOMAIN tasks :
        LET t == tasks[i]
        IN  /\ t.pc \in RequestOps => t.log # << >> /\ t.log[Len(t.log)][1] = t.pc
            /\ \A p \in DOMAIN t.log :
                  LET op == t.log[p][1]
                  IN  /\ (p < Len(t.log) /\ op \in RequestOps) => Answered(t, op)
                      /\ op = "listSubscriptionsByTopic"
                            => /\ p > 1 /\ t.log[p - 1][1] = "getFunction"
                               /\ Answered(t, "getFunction")
                               /\ t.log[p][2] = t.topicArn
                      /\ op \in Mutating
                            => /\ \E q \in 1..(p - 1) : t.log[q][1] = "listSubscriptionsByTopic"
                               /\ Answered(t, "getFunction")
                               /\ Answered(t, "listSubscriptionsByTopic")

\* The actions of one hook interleave: the action called second waits for the
\* answer to its subscribe request while the one called first has not got its
\* function's descriptor yet.
InterleavedWitness ==
    \E i, j \in DOMAIN tasks :
        /\ i < j
        /\ tasks[i].pc = "getFunction" /\ tasks[i].phase = "resolve"
        /\ tasks[j].pc = "subscribe"

-----------------------------------------------------------------------------
(* C16 *)

\* The requests of an action's first resolution.
ResolutionOps == { "getRestApis", "getFunction", "listSubscriptionsByTopic" }

\* C16: an action one of whose requests was rejected has failed, has issued no
\* request after the rejected one (so none was sent again), and, when the
\* rejected request was one of its first resolution, has issued no subscribe,
\* unsubscribe or setSubscriptionAttributes request and no such request of it
\* was served.
RejectionEndsTheAction ==
    \A i \in DOMAIN tasks :
        LET t == tasks[i]
        IN  /\ t.pc = "failed" <=> t.rejected > 0
            /\ t.rejected > 0
               => /\ Len(t.log) = t.rejected
                  /\ t.log[t.rejected][1] \in RequestOps
                  /\ \A p \in 1..(t.rejected - 1) : t.log[p] # t.log[t.rejected] \/ t.phase = "recheck"
                  /\ (t.phase = "resolve" /\ t.log[t.rejected][1] \in ResolutionOps)
                     => /\ MutatingRequests(t) = {}
                        /\ \A op \in Mutating : << i, op >> \notin served

\* Actions have failed on a rejected request of each kind the claim names.
RejectionWitness ==
    /\ \E i \in DOMAIN tasks :
          /\ tasks[i].rejected > 0 /\ tasks[i].phase = "resolve"
          /\ tasks[i].log[tasks[i].rejected][1] \in ResolutionOps
    /\ \E j \in DOMAIN tasks :
          /\ tasks[j].rejected > 0
          /\ tasks[j].log[tasks[j].rejected][1] \in { "subscribe", "unsubscribe" }

-----------------------------------------------------------------------------
(* C17 *)

\* The longest an action's log gets: getRestApis, getFunction,
\* listSubscriptionsByTopic, subscribe, the delay, getFunction,
\* listSubscriptionsByTopic, setSubscriptionAttributes.
LongestLog ==
    << "getRestApis", "getFunction", "listSubscriptionsByTopic", "subscribe",
       "delay", "getFunction", "listSubscriptionsByTopic", "setSubscriptionAttributes" >>

\* How far an action has got: every step of it adds to its log, starts its
\* wait, or ends it.
Progress(t) ==
    2 * Len(t.log) + (IF t.pc = "delay" \/ t.pc \in Finished THEN 1 ELSE 0)

\* The guard of the step that answers what the action waits for.
StepGuard(t) ==
    \/ t.pc \in { "getRestApis", "getFunction", "subscribe", "delay", "setSubscriptionAttributes" }
    \/ t.pc = "listSubscriptionsByTopic" /\ t.phase \in { "resolve", "recheck" }

\* In every state: at most one subscribe request, one wait and one
\* setSubscriptionAttributes request; a log no longer than LongestLog; an action
\* that has not ended waits for an answer or for the delay; an action that found
\* its subscription still pending after the wait has ended, without a request.
SubscribeBounds ==
    \A i \in DOMAIN tasks :
        LET t == tasks[i]
        IN  t.kind = "subscribe"
            => /\ Cardinality(Requests(t, "subscribe")) <= 1
               /\ Cardinality(Requests(t, "delay")) <= 1
               /\ Cardinality(Requests(t, "setSubscriptionAttributes")) <= 1
               /\ Len(t.log) <= Len(LongestLog)
               /\ t.pc \notin Finished => StepGuard(t)
               /\ (HasNewInfo(t) /\ ~Truthy(t.newInfo.SubscriptionArn))
                  => /\ t.pc = "done"
                     /\ Requests(t, "setSubscriptionAttributes") = {}
                     /\ t.log[Len(t.log)][1] = "listSubscriptionsByTopic"

\* In every step of a running hook: an action that changes gets further, and an
\* action that has ended does not change.
SubscribeAdvances ==
    hooksRun' = hooksRun
    => \A i \in DOMAIN tasks :
          /\ tasks'[i] # tasks[i] => Progress(tasks'[i]) > Progress(tasks[i])
          /\ tasks[i].pc \in Finished => tasks'[i] = tasks[i]

\* C17: a subscribe action ends once its requests are answered: an action that
\* has not ended can take a step, every step takes it further, and it can get no
\* further than LongestLog; it issues at most one subscribe request, waits at
\* most once, issues at most one setSubscriptionAttributes request, and when the
\* subscription is still pending after the wait it ends without waiting again.
SubscribeIsBounded == []SubscribeBounds /\ [][SubscribeAdvances]_vars

\* An action has waited once, found its subscription still pending, and ended;
\* the subscription is pending still.
StillPendingWitness ==
    \E i \in DOMAIN tasks :
        LET t == tasks[i]
        IN  /\ t.kind = "subscribe" /\ t.pc = "done"
            /\ Cardinality(Requests(t, "delay")) = 1
            /\ HasNewInfo(t) /\ ~Truthy(t.newInfo.SubscriptionArn)
            /\ \E k \in DOMAIN subscriptions :
                  /\ subscriptions[k].by = << t.fn, t.ev >>
                  /\ ~Active(subscriptions[k])

-----------------------------------------------------------------------------
(* C18 *)

\* C18 as stated: a subscribe action (noDeploy unset) that was listed no active
\* subscription whose endpoint is its function's ARN or invoke URL issues a
\* subscribe request, whatever else the topic's list holds.
SubscribesWhenNoneForEndpoint ==
    \A i \in DOMAIN tasks :
        LET t == tasks[i]
        IN  (/\ t.kind = "subscribe" /\ ~opts.noDeploy
             /\ t.phase = "resolve" /\ Informed(t)
             /\ \A k \in DOMAIN t.listed :
                   ~(Active(t.listed[k]) /\ t.listed[k].Endpoint \in EndpointsOf(t.fn)))
            => Requests(t, "subscribe") # {}

-----------------------------------------------------------------------------
(* C19 *)

\* The subscribe actions of the previous hook for the same binding that ended
\* with the identifier of a confirmed subscription.
SubscribedBefore(t) ==
    { h \in history : /\ h.hook = hooksRun - 1 /\ ~h.noDeploy
                      /\ h.kind = "subscribe" /\ h.fn = t.fn /\ h.ev = t.ev /\ h.pc = "done"
                      /\ Truthy(h.SubscriptionArn)
                      /\ IndexOf(ToLowerCase(h.SubscriptionArn), "pending") = -1 }

\* C19 as stated: once the unsubscribe action of a binding has completed, in the
\* hook after the one whose subscribe action for the binding created a confirmed
\* subscription, the topic's list holds no active subscription that was created
\* for the binding.
UnsubscribeUndoesSubscribe ==
    \A i \in DOMAIN tasks :
        LET t == tasks[i]
        IN  (t.kind = "unsubscribe" /\ t.pc = "done")
            => \A h \in SubscribedBefore(t) :
                  ~ \E k \in DOMAIN subscriptions :
                        /\ subscriptions[k].SubscriptionArn = h.SubscriptionArn
                        /\ subscriptions[k].by = << t.fn, t.ev >>
                        /\ Active(subscriptions[k])

-----------------------------------------------------------------------------
(* C20 *)

\* In every state: an unsubscribe action has issued at most one unsubscribe
\* request, for the identifier its resolver returned, which the list it got
\* shows as an active subscription with the function's ARN as endpoint, created
\* by an action of the same function.
UnsubscribesOwnArn ==
    \A i \in DOMAIN tasks :
        LET t == tasks[i]
        IN  t.kind = "unsubscribe"
            => /\ Cardinality(Requests(t, "unsubscribe")) <= 1
               /\ \A p \in Requests(t, "unsubscribe") :
                     /\ t.log[p][2] = t.info.SubscriptionArn
                     /\ t.info.Endpoint = FunctionArnOf(opts, functions[t.fn].name)
                     /\ \E k \in DOMAIN t.listed : t.listed[k].SubscriptionArn = t.log[p][2]
                     /\ \A k \in DOMAIN t.listed :
                           t.listed[k].SubscriptionArn = t.log[p][2]
                           => /\ Active(t.listed[k])
                              /\ t.listed[k].Endpoint = t.fnArn
                              /\ t.listed[k].by[1] = t.fn

\* In every step: a subscription that leaves the list had the ARN of a function
\* as endpoint, and an unsubscribe action of that function was waiting for the
\* answer to its request for it.
RemovedByOwner ==
    \A k \in DOMAIN subscriptions :
        (\A l \in DOMAIN subscriptions' : subscriptions'[l].id # subscriptions[k].id)
        => \E i \in DOMAIN tasks :
              /\ tasks[i].kind = "unsubscribe" /\ tasks[i].pc = "unsubscribe"
              /\ tasks[i].log[Len(tasks[i].log)][2] = subscriptions[k].SubscriptionArn
              /\ subscriptions[k].Endpoint = tasks[i].fnArn
              /\ subscriptions[k].by[1] = tasks[i].fn

\* C20: unsubscribeFunction issues at most one unsubscribe request, only for a
\* subscription whose endpoint is its function's ARN, and no subscription of
\* another function is ever removed from a topic's list.
UnsubscribeOnlyOwnArn == []UnsubscribesOwnArn /\ [][RemovedByOwner]_vars

\* An unsubscribe action was listed the active subscription of another function
\* ahead of its own, with the same protocol, and asked for its own to be removed.
UnsubscribeOwnWitness ==
    \E i \in DOMAIN tasks :
        LET t == tasks[i]
        IN  /\ t.kind = "unsubscribe" /\ Requests(t, "unsubscribe") # {}
            /\ \E k, l \in DOMAIN t.listed :
                  /\ k < l
                  /\ Active(t.listed[k]) /\ t.listed[k].Endpoint # t.fnArn
                  /\ t.listed[k].Protocol = t.listed[l].Protocol
                  /\ t.listed[l].SubscriptionArn = t.info.SubscriptionArn

====
